---- MODULE Spec2Model ----
(***************************************************************************)
(* Todo lists with a background "toggle complete" task and a WebSocket     *)
(* notification channel.                                                   *)
(*                                                                         *)
(* Two threads of control are modelled.  The event loop runs the request   *)
(* handlers, the WebSocket handlers and the broadcast_retry coroutines;    *)
(* one step of the model is the code between two suspension points.  The   *)
(* worker pool runs process_toggle_complete_background; its steps          *)
(* interleave with those of the loop.                                      *)
(*                                                                         *)
(* Optional[X] is written as a sequence: None is <<>>, a value x is <<x>>. *)
(***************************************************************************)
EXTENDS Integers, Sequences, FiniteSets, TLC

\* ---- bounds of the model ----
MaxLists == 2
MaxTodos == 2
MaxTasks == 2
MaxConns == 2
MaxRetries == 3
MaxPings == 2

\* the default of the parameter `retries` of broadcast_retry, which is what
\* the toggle task's callbacks run with: 10 in the source, scaled down here to
\* the bound on retries
DefaultRetries == MaxRetries

ListIds == 1..MaxLists
\* the list id the requests of the whole-system specification are about
SysListIds == {1}
Conns == 1..MaxConns
Names == {"groceries"}
\* a string is the sequence of its characters
Milk == <<"m", "i", "l", "k">>
Descriptions == {Milk}

None == <<>>
Some(x) == <<x>>

\* the record of a call: the operation, its arguments, the HTTP status of the
\* handler's response (0 for a call of a service) and the detail of an error
Call(op, list_id, todo_id, status, detail) ==
    [op |-> op, list_id |-> list_id, todo_id |-> todo_id, status |-> status,
     detail |-> detail]

NoCall == Call("none", 0, 0, 0, <<>>)

VARIABLES
    storage,             \* TodoListService._storage: sequence of TodoList
    next_id,             \* TodoListService._next_id
    locks,               \* TodoListService._locks
    active_connections,  \* WebSocketManager.active_connections: list id -> set
    conn,                \* per connection: state of its handler and its list id
    received,            \* per connection: the messages the client was sent
    tasks,               \* executions of process_toggle_complete_background
    loopq,               \* callbacks handed to the loop by call_soon_threadsafe
    rtasks,              \* broadcast_retry coroutines
    sleepq,              \* broadcast_retry coroutines in asyncio.sleep, by deadline
    net,                 \* history: the (list id, connection) pairs subscribed and
                         \* not unsubscribed since, kept beside the registry
    response,            \* the last call of the store's interface and its outcome
    created,             \* history: the number of calls of TodoListService.create
    pings                \* per connection: the pings its handler has sent

vars == <<storage, next_id, locks, active_connections, conn, received,
          tasks, loopq, rtasks, sleepq, net, response, created, pings>>

storeVars == <<storage, next_id>>
chanVars == <<active_connections, conn, received, net>>
loopVars == <<loopq, rtasks, sleepq>>
\* what the calls of the store's interface and the idle handlers leave behind
obsVars == <<response, created, pings>>

\* ---------------------------------------------------------------- models
\* Todo(id, completed, description)
Todo(id, payload) ==
    [id |-> id, completed |-> payload.completed, description |-> payload.description]

\* CreateTodoDTO: at least one field, description not blank
CreateTodoDTO ==
    { p \in [completed : {None, Some(TRUE), Some(FALSE)},
             description : {None} \cup {Some(d) : d \in Descriptions}] :
        ~(p.completed = None /\ p.description = None) }

\* the payloads the requests of the toggle specifications draw from
TogglePayloads ==
    { p \in CreateTodoDTO :
        \/ p = [completed |-> Some(FALSE), description |-> Some(Milk)]
        \/ p = [completed |-> Some(TRUE), description |-> None] }

SysPayloads ==
    { p \in CreateTodoDTO :
        p = [completed |-> Some(FALSE), description |-> Some(Milk)] }

\* TodoList(id, name) with todos defaulting to []
TodoList(id, name) == [id |-> id, name |-> name, todos |-> <<>>]

\* ------------------------------------------------------------ TodoListService
is_locked(list_id) == list_id \in locks

\* a lock that adds nothing to the set
lock_forgotten(list_id) == locks

lock(list_id) == locks \cup {list_id}

\* an unlock that clears the whole set
unlock_all(list_id) == {}

unlock(list_id) == locks \ {list_id}

\* index of the first stored list with this id, 0 when there is none
IndexOf(todo_list_id) ==
    LET hits == {i \in 1..Len(storage) : storage[i].id = todo_list_id}
    IN  IF hits = {} THEN 0 ELSE CHOOSE i \in hits : \A j \in hits : i <= j

get(todo_list_id) ==
    IF IndexOf(todo_list_id) = 0 THEN None ELSE Some(storage[IndexOf(todo_list_id)])

\* TodoListService.create
CreateList(name) ==
    /\ next_id <= MaxLists
    /\ storage' = Append(storage, TodoList(next_id, name))
    /\ next_id' = next_id + 1
    /\ UNCHANGED <<obsVars, locks, chanVars, tasks, loopVars>>

\* TodoListService.delete (the found case; a missing id changes nothing)
DeleteList(todo_list_id) ==
    /\ IndexOf(todo_list_id) # 0
    /\ storage' = [i \in 1..(Len(storage) - 1) |->
                      IF i < IndexOf(todo_list_id) THEN storage[i] ELSE storage[i + 1]]
    /\ UNCHANGED <<obsVars, next_id, locks, chanVars, tasks, loopVars>>

\* an id taken from the number of todos
NewTodoId_by_count(todos) == Len(todos) + 1

\* TodoService.create (the found case; a missing list raises ValueError)
NewTodoId(todos) ==
    LET ids == {todos[i].id : i \in 1..Len(todos)}
    IN  (IF ids = {} THEN 0 ELSE CHOOSE m \in ids : \A x \in ids : x <= m) + 1

\* number of todos in the first n lists of the store
RECURSIVE TodoCount(_)
TodoCount(n) == IF n = 0 THEN 0 ELSE Len(storage[n].todos) + TodoCount(n - 1)

CreateTodo(todo_list_id, todo_payload) ==
    LET i == IndexOf(todo_list_id) IN
    /\ i # 0
    /\ TodoCount(Len(storage)) < MaxTodos
    /\ storage' = [storage EXCEPT ![i].todos =
                      Append(@, Todo(NewTodoId(@), todo_payload))]
    /\ UNCHANGED <<obsVars, next_id, locks, chanVars, tasks, loopVars>>

\* ------------------------------------------------- events of the toggle task
DoneEvent(todo_list_id, completed) ==
    [event |-> "toggle_complete_done", listId |-> todo_list_id, completed |-> completed]

ErrorEvent(todo_list_id, error) ==
    [event |-> "toggle_complete_error", listId |-> todo_list_id, error |-> error]

\* a hand-over that queues the callback twice
call_soon_threadsafe_twice(t, message) ==
    loopq \o << [list_id |-> tasks[t].list_id, message |-> message, src |-> t,
                 retries |-> MaxRetries],
               [list_id |-> tasks[t].list_id, message |-> message, src |-> t,
                 retries |-> MaxRetries] >>

\* a hand-over that loses the callback
call_soon_threadsafe_dropped(t, message) == loopq

\* event_loop.call_soon_threadsafe(lambda: create_task(broadcast_retry(id, message)))
\* by execution t: the callback joins the loop's queue
call_soon_threadsafe(t, message) ==
    Append(loopq, [list_id |-> tasks[t].list_id, message |-> message, src |-> t,
                   retries |-> DefaultRetries])

\* --------------------------------------------- the toggle request's handler
\* accept_toggle: conflict when the list is locked, otherwise lock and schedule
NewTask(todo_list_id, completed) ==
    [list_id |-> todo_list_id, completed |-> completed, pc |-> "get",
     bound |-> {}, err |-> "", unlocks |-> 0,
     \* history: whether the store held the list at the lookup, and the
     \* connections subscribed to the list then
     found |-> "unknown", watchers |-> {}]

AcceptToggle(todo_list_id, completed) ==
    /\ Len(tasks) < MaxTasks
    /\ ~is_locked(todo_list_id)
    /\ locks' = lock(todo_list_id)
    /\ tasks' = Append(tasks, NewTask(todo_list_id, completed))
    /\ UNCHANGED <<obsVars, storeVars, chanVars, loopVars>>

\* ------------------------------- process_toggle_complete_background, by steps
Subscribers(list_id) ==
    IF list_id \in DOMAIN active_connections THEN active_connections[list_id] ELSE {}

\* a not-found branch that reports completion
NotFoundEvent_done(todo_list_id) == DoneEvent(todo_list_id, FALSE)

NotFoundEvent(todo_list_id) == ErrorEvent(todo_list_id, "TodoList not found")

InStore(todo_list_id) == \E i \in 1..Len(storage) : storage[i].id = todo_list_id

\* todo_list = self.get(id); the not-found branch submits its event and returns
Lookup(t) ==
    /\ tasks[t].pc = "get"
    /\ IF get(tasks[t].list_id) = None
       THEN /\ loopq' = call_soon_threadsafe(t, NotFoundEvent(tasks[t].list_id))
            /\ tasks' = [tasks EXCEPT ![t].pc = "finally",
                                      ![t].bound = {"todo_list"},
                                      ![t].found = IF InStore(tasks[t].list_id)
                                                   THEN "yes" ELSE "no",
                                      ![t].watchers = Subscribers(tasks[t].list_id)]
       ELSE /\ loopq' = loopq
            /\ tasks' = [tasks EXCEPT ![t].pc = "mutate",
                                      ![t].bound = {"todo_list"},
                                      ![t].found = IF InStore(tasks[t].list_id)
                                                   THEN "yes" ELSE "no",
                                      ![t].watchers = Subscribers(tasks[t].list_id)]
    /\ UNCHANGED <<obsVars, storeVars, locks, chanVars, rtasks, sleepq>>

\* a loop that leaves the last todo as it was
SetCompleted_stops_early(todos, completed, k) ==
    [i \in 1..Len(todos) |->
        IF i < k THEN [todos[i] EXCEPT !.completed = Some(completed)] ELSE todos[i]]

\* for todo in todos: todo.completed = completed, for the first k todos
SetCompleted(todos, completed, k) ==
    [i \in 1..Len(todos) |->
        IF i <= k THEN [todos[i] EXCEPT !.completed = Some(completed)] ELSE todos[i]]

\* the store after the loop has set k todos of the list the task holds; a
\* list deleted since the lookup is no longer in the store
StoreAfterToggle(t, k) ==
    LET i == IndexOf(tasks[t].list_id) IN
    IF i = 0 THEN storage
    ELSE [storage EXCEPT ![i].todos = SetCompleted(@, tasks[t].completed, k)]

TodosOf(todo_list_id) ==
    IF IndexOf(todo_list_id) = 0 THEN <<>> ELSE storage[IndexOf(todo_list_id)].todos

\* a task that goes to its clean-up straight from the loop
AfterMutate_returns == "finally"

\* after the loop, control reaches the call that hands over the done event
AfterMutate == "submit"

\* todos = todo_list.todos or []; the loop over todos runs to its end
Mutate(t) ==
    /\ tasks[t].pc = "mutate"
    /\ storage' = StoreAfterToggle(t, Len(TodosOf(tasks[t].list_id)))
    /\ tasks' = [tasks EXCEPT ![t].pc = AfterMutate,
                              ![t].bound = @ \cup {"todos"}]
    /\ UNCHANGED <<obsVars, next_id, locks, chanVars, loopVars>>

\* the loop raises at todo k + 1: the first k todos are set, control passes to
\* the except clause with the message of the exception
MutateRaises(t, k) ==
    /\ tasks[t].pc = "mutate"
    /\ k < Len(TodosOf(tasks[t].list_id))
    /\ storage' = StoreAfterToggle(t, k)
    /\ tasks' = [tasks EXCEPT ![t].pc = "except",
                              ![t].bound = @ \cup {"todos"},
                              ![t].err = "unexpected failure"]
    /\ UNCHANGED <<obsVars, next_id, locks, chanVars, loopVars>>

\* the done event is handed to the loop
SubmitDone(t) ==
    /\ tasks[t].pc = "submit"
    /\ loopq' = call_soon_threadsafe(t,
                    DoneEvent(tasks[t].list_id, tasks[t].completed))
    /\ tasks' = [tasks EXCEPT ![t].pc = "finally"]
    /\ UNCHANGED <<obsVars, storeVars, locks, chanVars, rtasks, sleepq>>

\* except Exception as err: the error event is handed to the loop
SubmitError(t) ==
    /\ tasks[t].pc = "except"
    /\ loopq' = call_soon_threadsafe(t, ErrorEvent(tasks[t].list_id, tasks[t].err))
    /\ tasks' = [tasks EXCEPT ![t].pc = "finally"]
    /\ UNCHANGED <<obsVars, storeVars, locks, chanVars, rtasks, sleepq>>

\* finally: del todos; del todo_list; self.unlock(id).  `del` of a local
\* that was never assigned raises UnboundLocalError, which leaves the function
FinallyReachesUnlock(t) == {"todos", "todo_list"} \subseteq tasks[t].bound

Finally(t) ==
    /\ tasks[t].pc = "finally"
    /\ IF FinallyReachesUnlock(t)
       THEN /\ locks' = unlock(tasks[t].list_id)
            /\ tasks' = [tasks EXCEPT ![t].pc = "done", ![t].unlocks = @ + 1]
       ELSE /\ locks' = locks
            /\ tasks' = [tasks EXCEPT ![t].pc = "raised"]
    /\ UNCHANGED <<obsVars, storeVars, chanVars, loopVars>>

\* ----------------------------------------------------------- WebSocketManager
\* connect: the set of list_id is created when absent, the connection added
connect(list_id, websocket) ==
    [k \in DOMAIN active_connections \cup {list_id} |->
        IF k = list_id THEN Subscribers(k) \cup {websocket} ELSE active_connections[k]]

\* a disconnect that keeps the key of an emptied set
DropsEntry_never(list_id, websocket) == FALSE

\* after discard: the entry of list_id is deleted when its set is empty
DropsEntry(list_id, websocket) == Subscribers(list_id) \ {websocket} = {}

\* a disconnect that leaves the registry as it is
disconnect_noop(list_id, websocket) == active_connections

disconnect(list_id, websocket) ==
    IF list_id \notin DOMAIN active_connections THEN active_connections
    ELSE IF DropsEntry(list_id, websocket)
         THEN [k \in DOMAIN active_connections \ {list_id} |-> active_connections[k]]
         ELSE [active_connections EXCEPT ![list_id] = @ \ {websocket}]

\* ws.send_json succeeds on a connection whose peer is still there and raises
\* on one the peer has left or the handler has closed
SendSucceeds(websocket) == conn[websocket].st = "open"

\* a broadcast that gives up at the first failed send
AfterFailedSend_aborts(rec, ws) == {}

\* a send that raises is caught inside the loop: the connections left are
\* still to be sent to
AfterFailedSend(rec, ws) == rec.pending \ {ws}

\* one pass of broadcast's loop body for rtask record rec (number r) and ws:
\* the record, the registry and the client's inbox after it
SendResult(rec, ws) ==
    LET left == IF SendSucceeds(ws) THEN rec.pending \ {ws} ELSE AfterFailedSend(rec, ws)
    IN  [rec EXCEPT !.pending = left,
                    !.failed = IF SendSucceeds(ws) THEN @ ELSE @ \cup {ws},
                    !.pc = IF left = {} THEN "done" ELSE "send"]

RegistryAfterSend(list_id, ws) ==
    IF SendSucceeds(ws) THEN active_connections ELSE disconnect(list_id, ws)

NetAfterSend(list_id, ws) ==
    IF SendSucceeds(ws) THEN net ELSE net \ {<<list_id, ws>>}

ReceivedAfterSend(rec, r, ws) ==
    IF SendSucceeds(ws)
    THEN [received EXCEPT ![ws] = Append(@, [message |-> rec.message, r |-> r])]
    ELSE received

\* broadcast_retry(list_id, message, retries) as created by a callback
NewRetry(cb) ==
    [list_id |-> cb.list_id, message |-> cb.message, src |-> cb.src,
     retries |-> cb.retries, checks |-> 0, pc |-> "new",
     pending |-> {}, snapshot |-> {}, failed |-> {},
     \* history: the number of the first check at which the registry held a
     \* subscriber of the list, 0 while there was none
     sawAt |-> 0]

\* one iteration of `for attempt in range(retries)` of coroutine r of base:
\* read the registry; with subscribers, broadcast (snapshot the set, send to
\* the first connection); without, sleep
HasSubscribers(conns) == conns # {}

Attempt(r, base, sq) ==
    LET subs == Subscribers(base[r].list_id)
        rec == [base[r] EXCEPT !.checks = @ + 1,
                               !.sawAt = IF @ = 0 /\ subs # {}
                                         THEN base[r].checks + 1 ELSE @]
    IN  IF ~HasSubscribers(subs)
        THEN /\ rtasks' = [base EXCEPT ![r] = [rec EXCEPT !.pc = "sleep"]]
             /\ sleepq' = Append(sq, r)
             /\ UNCHANGED <<active_connections, received, net>>
        ELSE \E ws \in subs :
             LET started == [rec EXCEPT !.snapshot = subs, !.pending = subs]
             IN  /\ rtasks' = [base EXCEPT ![r] = SendResult(started, ws)]
                 /\ sleepq' = sq
                 /\ active_connections' = RegistryAfterSend(rec.list_id, ws)
                 /\ net' = NetAfterSend(rec.list_id, ws)
                 /\ received' = ReceivedAfterSend(started, r, ws)

\* the loop runs the oldest callback: the coroutine is created and runs up to
\* its first suspension
RunCallback ==
    /\ loopq # <<>>
    /\ loopq' = Tail(loopq)
    /\ Attempt(Len(rtasks) + 1,
               Append(rtasks, NewRetry(Head(loopq))), sleepq)
    /\ UNCHANGED <<obsVars, storeVars, locks, conn, tasks>>

\* a caller on the loop awaits broadcast_retry(list_id, message, retries): the
\* coroutine runs up to its first suspension
CallBroadcastRetry(list_id, message, retries) ==
    /\ Len(rtasks) < MaxTasks
    /\ Attempt(Len(rtasks) + 1,
               Append(rtasks, NewRetry([list_id |-> list_id, message |-> message,
                                        src |-> 0, retries |-> retries])), sleepq)
    /\ UNCHANGED <<obsVars, storeVars, locks, conn, tasks, loopq>>

\* a range with one more attempt than `retries`
RangeExhausted_one_more(rec) == rec.checks > rec.retries

\* range(retries) is exhausted after `retries` iterations
RangeExhausted(rec) == rec.checks >= rec.retries

\* the sleep with the earliest deadline ends (all sleeps have the same delay,
\* so deadlines are in the order the sleeps began)
Wake ==
    /\ sleepq # <<>>
    /\ IF RangeExhausted(rtasks[Head(sleepq)])
       THEN /\ rtasks' = [rtasks EXCEPT ![Head(sleepq)].pc = "done"]
            /\ sleepq' = Tail(sleepq)
            /\ UNCHANGED <<active_connections, received, net>>
       ELSE Attempt(Head(sleepq), rtasks, Tail(sleepq))
    /\ UNCHANGED <<obsVars, storeVars, locks, conn, tasks, loopq>>

\* broadcast resumes after a send and sends to the next connection of its copy
SendNext(r, ws) ==
    /\ rtasks[r].pc = "send"
    /\ ws \in rtasks[r].pending
    /\ rtasks' = [rtasks EXCEPT ![r] = SendResult(@, ws)]
    /\ active_connections' = RegistryAfterSend(rtasks[r].list_id, ws)
    /\ net' = NetAfterSend(rtasks[r].list_id, ws)
    /\ received' = ReceivedAfterSend(rtasks[r], r, ws)
    /\ UNCHANGED <<obsVars, storeVars, locks, conn, tasks, loopq, sleepq>>

\* ------------------------------------------------------- todo_list_ws handler
\* connections are numbered in the order they are opened
NextConn == Cardinality({c \in Conns : conn[c].st # "new"}) + 1

\* a connection from an allowed origin: websocket_manager.connect
WsConnect(c, todo_list_id) ==
    /\ c \in Conns
    /\ c = NextConn
    /\ conn' = [conn EXCEPT ![c] = [st |-> "open", list_id |-> todo_list_id]]
    /\ active_connections' = connect(todo_list_id, c)
    /\ net' = net \cup {<<todo_list_id, c>>}
    /\ UNCHANGED <<obsVars, storeVars, locks, received, tasks, loopVars>>

\* the peer goes away; the handler has not seen it yet
ClientGone(c) ==
    /\ conn[c].st = "open"
    /\ conn' = [conn EXCEPT ![c].st = "broken"]
    /\ UNCHANGED <<obsVars, storeVars, locks, active_connections, received, net, tasks, loopVars>>

\* receive_text raises: except Exception: websocket_manager.disconnect
WsHandlerExit(c) ==
    /\ conn[c].st = "broken"
    /\ conn' = [conn EXCEPT ![c].st = "closed"]
    /\ active_connections' = disconnect(conn[c].list_id, c)
    /\ net' = net \ {<<conn[c].list_id, c>>}
    /\ UNCHANGED <<obsVars, storeVars, locks, received, tasks, loopVars>>

\* the Origin header of the handshake: absent, an allowed one, another one
ALLOWED_WS_ORIGINS == {"http://localhost:5173", "http://127.0.0.1:5173"}
Origins == {None, Some("http://localhost:5173"), Some("http://example.org")}

OriginAllowed(origin) == origin # None /\ origin[1] \in ALLOWED_WS_ORIGINS

\* todo_list_ws up to its loop: a handshake from an origin that is not allowed
\* is closed with 403 and the handler returns; any other is connected
todo_list_ws(c, todo_list_id, origin) ==
    IF OriginAllowed(origin)
    THEN WsConnect(c, todo_list_id)
    ELSE /\ c \in Conns
         /\ c = NextConn
         /\ conn' = [conn EXCEPT ![c] = [st |-> "refused", list_id |-> todo_list_id]]
         /\ UNCHANGED <<obsVars, storeVars, locks, active_connections, received, net,
                        tasks, loopVars>>

\* asyncio.TimeoutError after 30 idle seconds: a ping is sent and the loop goes
\* on; a ping that cannot be sent raises into the outer except, as a failed
\* receive does
IdleTimeout(c) ==
    /\ conn[c].st \in {"open", "broken"}
    /\ IF SendSucceeds(c)
       THEN /\ pings[c] < MaxPings
            /\ pings' = [pings EXCEPT ![c] = @ + 1]
            /\ UNCHANGED <<response, created, storeVars, locks, chanVars, tasks, loopVars>>
       ELSE WsHandlerExit(c)

\* ------------------------------------------- validation of the todo payloads
Whitespace == {" "}

\* str.strip: the string without its leading and trailing whitespace
RECURSIVE lstrip(_)
lstrip(v) == IF v # <<>> /\ Head(v) \in Whitespace THEN lstrip(Tail(v)) ELSE v

RECURSIVE rstrip(_)
rstrip(v) ==
    IF v # <<>> /\ v[Len(v)] \in Whitespace THEN rstrip(SubSeq(v, 1, Len(v) - 1)) ELSE v

strip(v) == rstrip(lstrip(v))

\* the descriptions a request body may carry
RawDescriptions == {<<>>, <<" ">>, Milk}

\* the request bodies: each field absent (or null) or given
RawPayloads ==
    [completed : {None, Some(TRUE)},
     description : {None} \cup {Some(d) : d \in RawDescriptions}]

\* a validator that lets blank descriptions through
description_not_empty_lax(v) == TRUE

\* field_validator("description"): None passes, a blank string is refused, any
\* other string passes as it is
description_not_empty(v) == v = None \/ strip(v[1]) # <<>>

\* model_validator(mode="after")
at_least_one_field(p) == ~(p.description = None /\ p.completed = None)

\* CreateTodoDTO and UpdateTodoDTO accept the same bodies; the field validator
\* runs before the model validator
Accepts(raw) == description_not_empty(raw.description) /\ at_least_one_field(raw)

ValidationError(raw) ==
    IF ~description_not_empty(raw.description)
    THEN <<"description cannot be empty">>
    ELSE <<"At least one field must be provided">>

\* ---------------------------------------------------------------- TodoService
\* the outcome of a call of the service: the ValueError it raised or the value
\* it returned, and the store it leaves
Raised(error, store) == [raised |-> TRUE, error |-> error, value |-> None, store |-> store]
Returned(value, store) == [raised |-> FALSE, error |-> <<>>, value |-> Some(value), store |-> store]

\* f"Todo list with ID:{todo_list_id} not found"
ListNotFound(todo_list_id) ==
    <<"Todo list with ID:", ToString(todo_list_id), " not found">>

\* f"Todo with ID:{todo_id} from todo list with ID:{todo_list_id} not found"
TodoNotFound(todo_list_id, todo_id) ==
    <<"Todo with ID:", ToString(todo_id), " from todo list with ID:",
      ToString(todo_list_id), " not found">>

\* TodoListService.get_todos
get_todos(todo_list_id) ==
    IF IndexOf(todo_list_id) = 0 THEN None
    ELSE Some(storage[IndexOf(todo_list_id)].todos)

\* index of the first todo with this id in todos, 0 when there is none
TodoIndex(todos, todo_id) ==
    LET hits == {k \in 1..Len(todos) : todos[k].id = todo_id}
    IN  IF hits = {} THEN 0 ELSE CHOOSE k \in hits : \A j \in hits : k <= j

\* TodoService.get: a list without todos is reported as a list not found
todo_get(todo_list_id, todo_id) ==
    LET todos == get_todos(todo_list_id)
        todos_list == IF todos = None THEN <<>> ELSE todos[1]
    IN  IF todos_list = <<>> THEN Raised(ListNotFound(todo_list_id), storage)
        ELSE IF TodoIndex(todos_list, todo_id) = 0
        THEN Raised(TodoNotFound(todo_list_id, todo_id), storage)
        ELSE Returned(todos_list[TodoIndex(todos_list, todo_id)], storage)

\* TodoService.create
todo_create(todo_list_id, todo_payload) ==
    LET i == IndexOf(todo_list_id) IN
    IF get(todo_list_id) = None THEN Raised(ListNotFound(todo_list_id), storage)
    ELSE LET new_todo == Todo(NewTodoId(storage[i].todos), todo_payload)
         IN  Returned(new_todo, [storage EXCEPT ![i].todos = Append(@, new_todo)])

\* TodoService.update: the first todo with the id is replaced by a todo built
\* from the payload alone
todo_update(todo_list_id, todo_id, todo_payload) ==
    LET i == IndexOf(todo_list_id) IN
    IF get(todo_list_id) = None THEN Raised(ListNotFound(todo_list_id), storage)
    ELSE LET idx == TodoIndex(storage[i].todos, todo_id)
             updated_todo == Todo(todo_id, todo_payload)
         IN  IF idx = 0 THEN Raised(TodoNotFound(todo_list_id, todo_id), storage)
             ELSE Returned(updated_todo, [storage EXCEPT ![i].todos[idx] = updated_todo])

\* a filter that also drops the todos after the one deleted
KeptOnDelete_truncating(todos, todo_id) ==
    SubSeq(todos, 1, TodoIndex(todos, todo_id) - 1)

\* [todo for todo in todos_list if todo.id != todo_id]
KeptOnDelete(todos, todo_id) == SelectSeq(todos, LAMBDA todo : todo.id # todo_id)

\* TodoService.delete: the filtered list is stored before the lengths are
\* compared
todo_delete(todo_list_id, todo_id) ==
    LET i == IndexOf(todo_list_id) IN
    IF get(todo_list_id) = None THEN Raised(ListNotFound(todo_list_id), storage)
    ELSE LET new_todos == KeptOnDelete(storage[i].todos, todo_id)
             store == [storage EXCEPT ![i].todos = new_todos]
         IN  IF Len(storage[i].todos) = Len(new_todos)
             THEN Raised(TodoNotFound(todo_list_id, todo_id), store)
             ELSE Returned(TRUE, store)

\* ------------------------------------------------------------ the todo router
\* a handler that answers a ValueError of the service with another status
NotFoundStatus_ok == 200

\* except ValueError as error: raise HTTPException(404, detail=str(error))
NotFoundStatus == 404

\* what a handler makes of the service's outcome
Respond(op, todo_list_id, todo_id, outcome, success) ==
    IF outcome.raised
    THEN Call(op, todo_list_id, todo_id, NotFoundStatus, outcome.error)
    ELSE Call(op, todo_list_id, todo_id, success, <<>>)

\* the body is validated before the handler runs: 422 and no call of the service
Unprocessable(op, todo_list_id, todo_id, raw) ==
    /\ response' = Call(op, todo_list_id, todo_id, 422, ValidationError(raw))
    /\ UNCHANGED <<storage, next_id>>

\* the store stays within the bound on todos
RECURSIVE TodosIn(_)
TodosIn(store) ==
    IF store = <<>> THEN 0 ELSE Len(Head(store).todos) + TodosIn(Tail(store))

WithinTodoBound(store) == TodosIn(store) <= MaxTodos

\* GET /{todo_id}
show(todo_list_id, todo_id) ==
    /\ response' = Respond("show", todo_list_id, todo_id,
                           todo_get(todo_list_id, todo_id), 200)
    /\ storage' = todo_get(todo_list_id, todo_id).store
    /\ UNCHANGED <<next_id, locks, created, pings, chanVars, tasks, loopVars>>

\* POST
create(todo_list_id, raw) ==
    /\ IF Accepts(raw)
       THEN /\ WithinTodoBound(todo_create(todo_list_id, raw).store)
            /\ response' = Respond("create", todo_list_id, 0,
                                   todo_create(todo_list_id, raw), 201)
            /\ storage' = todo_create(todo_list_id, raw).store
            /\ UNCHANGED next_id
       ELSE Unprocessable("create", todo_list_id, 0, raw)
    /\ UNCHANGED <<locks, created, pings, chanVars, tasks, loopVars>>

\* PUT /{todo_id}
update(todo_list_id, todo_id, raw) ==
    /\ IF Accepts(raw)
       THEN /\ response' = Respond("update", todo_list_id, todo_id,
                                   todo_update(todo_list_id, todo_id, raw), 200)
            /\ storage' = todo_update(todo_list_id, todo_id, raw).store
            /\ UNCHANGED next_id
       ELSE Unprocessable("update", todo_list_id, todo_id, raw)
    /\ UNCHANGED <<locks, created, pings, chanVars, tasks, loopVars>>

\* DELETE /{todo_id}
delete(todo_list_id, todo_id) ==
    /\ response' = Respond("delete", todo_list_id, todo_id,
                           todo_delete(todo_list_id, todo_id), 204)
    /\ storage' = todo_delete(todo_list_id, todo_id).store
    /\ UNCHANGED <<next_id, locks, created, pings, chanVars, tasks, loopVars>>

\* ------------------------------------------- calls of TodoListService itself
\* an id counter that hands out the id of the last list again
NextIdAfterCreate_stuck == next_id

\* self._next_id += 1
NextIdAfterCreate == next_id + 1

\* TodoListService.create
ListCreate(name) ==
    /\ next_id <= MaxLists
    /\ storage' = Append(storage, TodoList(next_id, name))
    /\ next_id' = NextIdAfterCreate
    /\ created' = created + 1
    /\ response' = Call("list_create", next_id, 0, 0, <<>>)
    /\ UNCHANGED <<locks, pings, chanVars, tasks, loopVars>>

\* TodoListService.update: the stored list is replaced by
\* TodoList(id=todo_list_id, name=todo_list_data.name); None when not found
ListUpdate(todo_list_id, name) ==
    /\ storage' = IF IndexOf(todo_list_id) = 0 THEN storage
                  ELSE [storage EXCEPT ![IndexOf(todo_list_id)] =
                           TodoList(todo_list_id, name)]
    /\ response' = Call("list_update", todo_list_id, 0, 0,
                        IF IndexOf(todo_list_id) = 0 THEN <<"None">> ELSE <<>>)
    /\ UNCHANGED <<next_id, locks, created, pings, chanVars, tasks, loopVars>>

\* TodoListService.delete: False when not found
ListDelete(todo_list_id) ==
    /\ storage' = IF IndexOf(todo_list_id) = 0 THEN storage
                  ELSE [i \in 1..(Len(storage) - 1) |->
                           IF i < IndexOf(todo_list_id) THEN storage[i]
                           ELSE storage[i + 1]]
    /\ response' = Call("list_delete", todo_list_id, 0, 0,
                        IF IndexOf(todo_list_id) = 0 THEN <<"False">> ELSE <<"True">>)
    /\ UNCHANGED <<next_id, locks, created, pings, chanVars, tasks, loopVars>>

WasLocked(list_id) == IF is_locked(list_id) THEN <<"was locked">> ELSE <<"was free">>

\* TodoListService.lock, called on any id
CallLock(list_id) ==
    /\ locks' = lock(list_id)
    /\ response' = Call("lock", list_id, 0, 0, WasLocked(list_id))
    /\ UNCHANGED <<storeVars, created, pings, chanVars, tasks, loopVars>>

\* TodoListService.unlock, called on any id
CallUnlock(list_id) ==
    /\ locks' = unlock(list_id)
    /\ response' = Call("unlock", list_id, 0, 0, WasLocked(list_id))
    /\ UNCHANGED <<storeVars, created, pings, chanVars, tasks, loopVars>>

\* --------------------------------------------------------------- the system
Init ==
    /\ storage = <<>>
    /\ next_id = 1
    /\ locks = {}
    /\ active_connections = [k \in {} |-> {}]
    /\ conn = [c \in Conns |-> [st |-> "new", list_id |-> 0]]
    /\ received = [c \in Conns |-> <<>>]
    /\ tasks = <<>>
    /\ loopq = <<>>
    /\ rtasks = <<>>
    /\ sleepq = <<>>
    /\ net = {}
    /\ response = NoCall
    /\ created = 0
    /\ pings = [c \in Conns |-> 0]

\* the whole system, followed for one list id: the list is created, filled
\* and deleted while toggles of it are requested and clients connect to it
Next ==
    \/ \E name \in Names : next_id \in SysListIds /\ CreateList(name)
    \/ \E l \in SysListIds : DeleteList(l)
    \/ \E l \in SysListIds, p \in SysPayloads : CreateTodo(l, p)
    \/ \E l \in SysListIds, v \in BOOLEAN : AcceptToggle(l, v)
    \/ \E t \in DOMAIN tasks : Lookup(t)
    \/ \E t \in DOMAIN tasks : Mutate(t)
    \/ \E t \in DOMAIN tasks, k \in 0..MaxTodos : MutateRaises(t, k)
    \/ \E t \in DOMAIN tasks : SubmitDone(t)
    \/ \E t \in DOMAIN tasks : SubmitError(t)
    \/ \E t \in DOMAIN tasks : Finally(t)
    \/ RunCallback
    \/ Wake
    \/ \E r \in DOMAIN rtasks, ws \in Conns : SendNext(r, ws)
    \/ \E c \in Conns, l \in SysListIds : WsConnect(c, l)
    \/ \E c \in Conns : ClientGone(c)
    \/ \E c \in Conns : WsHandlerExit(c)

Spec == Init /\ [][Next]_vars

\* the store, the toggle handler and the worker, with no connection open
NextTask ==
    \/ \E name \in Names : CreateList(name)
    \/ \E l \in ListIds : DeleteList(l)
    \/ \E l \in ListIds, p \in TogglePayloads : CreateTodo(l, p)
    \/ \E l \in ListIds, v \in BOOLEAN : AcceptToggle(l, v)
    \/ \E t \in DOMAIN tasks : Lookup(t)
    \/ \E t \in DOMAIN tasks : Mutate(t)
    \/ \E t \in DOMAIN tasks, k \in 0..MaxTodos : MutateRaises(t, k)
    \/ \E t \in DOMAIN tasks : SubmitDone(t)
    \/ \E t \in DOMAIN tasks : SubmitError(t)
    \/ \E t \in DOMAIN tasks : Finally(t)

SpecTask == Init /\ [][NextTask]_vars

\* the notification channel alone: connections come and go while callers on
\* the loop await broadcast_retry
NextChan ==
    \/ \E l \in ListIds, n \in 1..MaxRetries :
          CallBroadcastRetry(l, DoneEvent(l, TRUE), n)
    \/ Wake
    \/ \E r \in DOMAIN rtasks, ws \in Conns : SendNext(r, ws)
    \/ \E c \in Conns, l \in ListIds : WsConnect(c, l)
    \/ \E c \in Conns : ClientGone(c)
    \/ \E c \in Conns : WsHandlerExit(c)

SpecChan == Init /\ [][NextChan]_vars

\* the store behind its interface: the todo router's handlers, and the calls
\* of TodoListService that create, rename and delete lists
StoreNames == {"groceries", "errands"}
TodoIds == 1..(MaxTodos + 1)

NextStore ==
    \/ \E name \in StoreNames : ListCreate(name)
    \/ \E l \in ListIds, name \in StoreNames : ListUpdate(l, name)
    \/ \E l \in ListIds : ListDelete(l)
    \/ \E l \in ListIds, t \in TodoIds : show(l, t)
    \/ \E l \in ListIds, raw \in RawPayloads : create(l, raw)
    \/ \E l \in ListIds, t \in TodoIds, raw \in RawPayloads : update(l, t, raw)
    \/ \E l \in ListIds, t \in TodoIds : delete(l, t)

SpecStore == Init /\ [][NextStore]_vars

\* the lock set alone; lock and unlock take any integer, stored list or not
LockIds == 1..(MaxLists + 3)

NextLock ==
    \/ \E l \in LockIds : CallLock(l)
    \/ \E l \in LockIds : CallUnlock(l)

SpecLock == Init /\ [][NextLock]_vars

\* the WebSocket handlers from handshake to exit, beside broadcasts on the loop
NextWs ==
    \/ \E c \in Conns, l \in ListIds, origin \in Origins : todo_list_ws(c, l, origin)
    \/ \E c \in Conns : ClientGone(c)
    \/ \E c \in Conns : WsHandlerExit(c)
    \/ \E c \in Conns : IdleTimeout(c)
    \/ \E l \in ListIds : CallBroadcastRetry(l, DoneEvent(l, TRUE), 1)
    \/ Wake
    \/ \E r \in DOMAIN rtasks, ws \in Conns : SendNext(r, ws)

SpecWs == Init /\ [][NextWs]_vars

\* ------------------------------------------------------------- observations
\* the events execution t has handed to the loop so far, oldest first: those
\* whose coroutine exists, then those still queued
Handed == [i \in 1..(Len(rtasks) + Len(loopq)) |->
              IF i <= Len(rtasks)
              THEN [message |-> rtasks[i].message, src |-> rtasks[i].src]
              ELSE [message |-> loopq[i - Len(rtasks)].message,
                    src |-> loopq[i - Len(rtasks)].src]]

EventsOf(t) ==
    LET mine == SelectSeq(Handed, LAMBDA e : e.src = t)
    IN  [i \in 1..Len(mine) |-> mine[i].message]

TaskEnded(t) == tasks[t].pc \in {"done", "raised"}

\* the lock of t's list is free, or held for a later execution still to end
NotLockedBy(t) ==
    \/ ~is_locked(tasks[t].list_id)
    \/ \E u \in DOMAIN tasks :
          u > t /\ tasks[u].list_id = tasks[t].list_id /\ ~TaskEnded(u)

\* a step of execution t
StepOf(t) == t \in DOMAIN tasks' /\ tasks'[t] # tasks[t]

\* C1: an execution of the toggle task that has ended, on whichever path, has
\* called unlock exactly once, and its list id is no longer locked on its
\* account, so a later toggle of the list can be accepted.
C1_UnlockOncePerExecution ==
    \A t \in DOMAIN tasks :
        TaskEnded(t) => tasks[t].unlocks = 1 /\ NotLockedBy(t)

\* the events of an execution whose lookup found no list
C2_NotFoundEvents ==
    \A t \in DOMAIN tasks :
        tasks[t].found = "no" =>
            EventsOf(t) = << [event |-> "toggle_complete_error",
                              listId |-> tasks[t].list_id,
                              error |-> "TodoList not found"] >>

\* the steps of an execution whose lookup found no list
C2_NotFoundFrame ==
    \A t \in DOMAIN tasks :
        StepOf(t) /\ tasks'[t].found = "no" => storage' = storage /\ next_id' = next_id

\* C2: once the lookup of an execution has found no list with its id, the
\* events it has handed to the loop are exactly one toggle_complete_error with
\* its list id and the error "TodoList not found" (so never a done event), and
\* no step of that execution changes the store.
C2_NotFound == []C2_NotFoundEvents /\ [][C2_NotFoundFrame]_vars

C2_Witness ==
    \E t \in DOMAIN tasks :
        /\ tasks[t].found = "no"
        /\ TaskEnded(t)
        /\ storage # <<>>
        /\ Len(EventsOf(t)) = 1

\* the step in which the loop over the todos runs to its end
C3_ToggleStep ==
    \A t \in DOMAIN tasks :
        (StepOf(t) /\ tasks[t].pc = "mutate" /\ tasks'[t].pc \notin {"mutate", "except"}) =>
            LET i == IndexOf(tasks[t].list_id) IN
            /\ next_id' = next_id
            /\ Len(storage') = Len(storage)
            /\ \A j \in 1..Len(storage) : j # i => storage'[j] = storage[j]
            /\ i # 0 =>
                /\ storage'[i].id = storage[i].id
                /\ storage'[i].name = storage[i].name
                /\ Len(storage'[i].todos) = Len(storage[i].todos)
                /\ \A k \in 1..Len(storage[i].todos) :
                      /\ storage'[i].todos[k].id = storage[i].todos[k].id
                      /\ storage'[i].todos[k].description = storage[i].todos[k].description
                      /\ storage'[i].todos[k].completed = Some(tasks[t].completed)

\* the events of an execution that found its list and met no failure
C3_ToggleEvents ==
    \A t \in DOMAIN tasks :
        (tasks[t].found = "yes" /\ tasks[t].err = "") =>
            /\ tasks[t].pc \in {"mutate", "submit"} => EventsOf(t) = <<>>
            /\ tasks[t].pc \in {"finally", "done", "raised"} =>
                  EventsOf(t) = << [event |-> "toggle_complete_done",
                                    listId |-> tasks[t].list_id,
                                    completed |-> tasks[t].completed] >>

\* C3: the step in which the loop of an execution runs to its end on a list
\* the store holds sets completed to the requested value on every todo of the
\* list and changes nothing else: the number and order of the todos, their ids
\* and descriptions, the list's id and name, every other list; and an
\* execution that found its list and met no failure hands over nothing before
\* that step and, from its hand-over on, exactly one toggle_complete_done
\* event with its list id and the requested value.
C3_Toggle == []C3_ToggleEvents /\ [][C3_ToggleStep]_vars

C3_Witness ==
    \E t \in DOMAIN tasks :
        /\ tasks[t].pc = "done" /\ tasks[t].found = "yes" /\ tasks[t].err = ""
        /\ ~tasks[t].completed
        /\ Len(storage) = 2
        /\ Len(TodosOf(tasks[t].list_id)) = 2
        /\ \A k \in 1..2 : TodosOf(tasks[t].list_id)[k].completed = Some(FALSE)
        /\ \E k \in 1..2 : TodosOf(tasks[t].list_id)[k].description = None
        /\ Len(EventsOf(t)) = 1

\* the executions for a list id that have not called unlock
Unreleased(list_id) ==
    {t \in DOMAIN tasks : tasks[t].list_id = list_id /\ tasks[t].unlocks = 0}

\* C4: for every list id, at most one execution of the toggle task is between
\* its acceptance and its unlock; executions for different list ids are in
\* flight together.
C4_OneInFlightPerList ==
    \A l \in ListIds : Cardinality(Unreleased(l)) <= 1

C4_Witness ==
    \E t, u \in DOMAIN tasks :
        /\ tasks[t].list_id # tasks[u].list_id
        /\ tasks[t].pc = "mutate" /\ tasks[u].pc = "mutate"
        /\ {tasks[t].list_id, tasks[u].list_id} \subseteq locks

\* C5: as long as an execution has handed no event to the loop it has not
\* called unlock and its list id is in the lock set: the unlock comes after
\* the hand-over on every path.
C5_LockedUntilHandOver ==
    \A t \in DOMAIN tasks :
        EventsOf(t) = <<>> => tasks[t].unlocks = 0 /\ is_locked(tasks[t].list_id)

C5_Witness ==
    \E t, u \in DOMAIN tasks :
        /\ tasks[t].pc = "done" /\ tasks[t].err # "" /\ Len(EventsOf(t)) = 1
        /\ tasks[u].pc = "finally" /\ tasks[u].found = "yes" /\ tasks[u].err = ""
        /\ is_locked(tasks[u].list_id)

\* the connections coroutine r has delivered its message to
DeliveredTo(r) ==
    {c \in Conns : \E i \in 1..Len(received[c]) : received[c][i].r = r}

TimesDelivered(r, c) ==
    Cardinality({i \in 1..Len(received[c]) : received[c][i].r = r})

\* C6: a broadcast_retry with retries = N that saw no subscriber of its list
\* at any check has made at most N checks, exactly N when it has returned,
\* and has delivered nothing; one that saw a subscriber at check k <= N has
\* started its broadcast at that check and made no check after it, and no
\* connection gets its message twice.
C6_BoundedRetry ==
    \A r \in DOMAIN rtasks :
        /\ rtasks[r].checks <= rtasks[r].retries
        /\ rtasks[r].sawAt = 0 =>
              /\ rtasks[r].snapshot = {}
              /\ DeliveredTo(r) = {}
              /\ rtasks[r].pc \in {"sleep", "done"}
              /\ rtasks[r].pc = "done" => rtasks[r].checks = rtasks[r].retries
        /\ rtasks[r].sawAt # 0 =>
              /\ rtasks[r].snapshot # {}
              /\ rtasks[r].checks = rtasks[r].sawAt
              /\ rtasks[r].pc \in {"send", "done"}
        /\ \A c \in Conns : TimesDelivered(r, c) <= 1

C6_Witness ==
    \E r, q \in DOMAIN rtasks :
        /\ rtasks[r].pc = "done" /\ rtasks[r].sawAt = 0
        /\ rtasks[r].retries = MaxRetries /\ rtasks[r].checks = MaxRetries
        /\ rtasks[q].pc = "done" /\ rtasks[q].sawAt = 2 /\ rtasks[q].retries = MaxRetries
        /\ DeliveredTo(q) # {}

\* a broadcast and the connections it copied from the registry
C7_BroadcastState ==
    \A r \in DOMAIN rtasks :
        /\ DeliveredTo(r) \subseteq rtasks[r].snapshot
        /\ \A c \in rtasks[r].snapshot : conn[c].list_id = rtasks[r].list_id
        /\ rtasks[r].snapshot =
              rtasks[r].pending \cup DeliveredTo(r) \cup rtasks[r].failed
        /\ rtasks[r].pc = "done" => rtasks[r].pending = {}
        /\ rtasks[r].failed \cap Subscribers(rtasks[r].list_id) = {}
        /\ rtasks[r].failed \cap DeliveredTo(r) = {}

\* the step in which a broadcast starts
C7_BroadcastStart ==
    \A r \in DOMAIN rtasks' :
        (/\ r \in DOMAIN rtasks => rtasks[r].snapshot = {}
         /\ rtasks'[r].snapshot # {}) =>
        rtasks'[r].snapshot = {c \in Conns : <<rtasks'[r].list_id, c>> \in net}

\* C7: a broadcast sends to the connections subscribed to its list when it
\* starts and to no other: while it runs every one of them is still to be
\* sent to, has got the message or has failed; when it has returned none is
\* left; a connection whose send failed has been unsubscribed, and the others
\* still get the message.
C7_BroadcastAll == []C7_BroadcastState /\ [][C7_BroadcastStart]_vars

C7_Witness ==
    \E r \in DOMAIN rtasks :
        /\ rtasks[r].pc = "done"
        /\ rtasks[r].failed # {}
        /\ DeliveredTo(r) # {}

\* C8: a connection that has received the events of two broadcasts for the same
\* list id has received them in the order in which they were handed to the
\* loop (coroutines are numbered in that order).
C8_DeliveredInOrder ==
    \A c \in Conns :
        \A i, j \in 1..Len(received[c]) :
            (i < j /\ received[c][i].message.listId = received[c][j].message.listId)
                => received[c][i].r < received[c][j].r

\* the case C8 names: the connection subscribed while both broadcasts were
\* between two checks (each had made a check that found no subscriber)
C8_InOrderWhenBothWaiting ==
    \A c \in Conns :
        \A i, j \in 1..Len(received[c]) :
            (/\ i < j
             /\ received[c][i].message.listId = received[c][j].message.listId
             /\ rtasks[received[c][i].r].sawAt >= 2
             /\ rtasks[received[c][j].r].sawAt >= 2)
                => received[c][i].r < received[c][j].r

\* the terminal event of execution t
TerminalEvent(t, message) ==
    /\ message.listId = tasks[t].list_id
    /\ tasks[t].found = "yes" /\ tasks[t].err = "" =>
          /\ message.event = "toggle_complete_done"
          /\ message.completed = tasks[t].completed
    /\ tasks[t].found = "no" => message.event = "toggle_complete_error"

GotTerminalEvent(c, t) ==
    \E i \in 1..Len(received[c]) :
        /\ rtasks[received[c][i].r].src = t
        /\ TerminalEvent(t, received[c][i].message)

\* C9: when an execution has ended and the broadcast of its event has
\* returned, every connection that was subscribed to its list at the lookup and
\* is still there has received the terminal event of the execution, which is
\* toggle_complete_done with the requested value when the list was in the
\* store, and the list id is no longer locked on the execution's account.
C9_SubscriberNotified ==
    \A t \in DOMAIN tasks : \A c \in tasks[t].watchers :
        (/\ conn[c].st = "open"
         /\ TaskEnded(t)
         /\ \E r \in DOMAIN rtasks : rtasks[r].src = t /\ rtasks[r].pc = "done") =>
        GotTerminalEvent(c, t) /\ NotLockedBy(t)

\* the part of C9 about the event alone
C9_EventReaches ==
    \A t \in DOMAIN tasks : \A c \in tasks[t].watchers :
        (/\ conn[c].st = "open"
         /\ TaskEnded(t)
         /\ \E r \in DOMAIN rtasks : rtasks[r].src = t /\ rtasks[r].pc = "done") =>
        GotTerminalEvent(c, t)

\* the registry against the history of subscriptions
C10_RegistryState ==
    /\ DOMAIN active_connections \subseteq ListIds
    /\ \A l \in DOMAIN active_connections : active_connections[l] # {}
    /\ \A l \in ListIds : Subscribers(l) = {c \in Conns : <<l, c>> \in net}

\* the handler's disconnect of a connection a failed send has removed already
C10_AbsentDisconnect ==
    \A c \in Conns :
        (conn[c].st = "broken" /\ conn'[c].st = "closed"
            /\ c \notin Subscribers(conn[c].list_id)) =>
        active_connections' = active_connections

\* C10: the registry holds, for each list id, exactly the connections
\* subscribed to it and not unsubscribed since, by connect, by disconnect and
\* by the failed sends of broadcast; it holds no list id with an empty set;
\* and a disconnect of a connection that is not in the registry leaves the
\* registry as it was.
C10_Registry == []C10_RegistryState /\ [][C10_AbsentDisconnect]_vars

C10_Witness ==
    \E c, d \in Conns, r \in DOMAIN rtasks :
        /\ conn[c].st = "closed" /\ c \in rtasks[r].failed
        /\ conn[d].st = "open" /\ conn[d].list_id = conn[c].list_id
        /\ Subscribers(conn[c].list_id) = {d}
        /\ DOMAIN active_connections = {conn[c].list_id}

\* a call of lock or unlock, seen as a step: L is the id it was given
C11_LockStep ==
    \A L \in LockIds : response'.list_id = L =>
    /\ response'.op = "lock" =>
          /\ is_locked(L)'
          /\ is_locked(L) => locks' = locks
          /\ \A M \in LockIds \ {L} : is_locked(M)' = is_locked(M)
    /\ response'.op = "unlock" =>
          /\ ~is_locked(L)'
          /\ ~is_locked(L) => locks' = locks
          /\ \A M \in LockIds \ {L} : is_locked(M)' = is_locked(M)

\* C11: after lock(L), is_locked(L) is true; after unlock(L) it is false;
\* lock(L) on a locked id and unlock(L) on an unlocked id leave the lock set
\* as it was; and neither changes is_locked(M) for any other id M.
C11_LockAlgebra == [][C11_LockStep]_vars

C11_Witness ==
    /\ response.op = "unlock"
    /\ response.detail = <<"was locked">>
    /\ Cardinality(locks) >= 2
    /\ ~is_locked(response.list_id)

\* the part of C12 about the failure itself: once the except clause of an
\* execution has run, the execution has handed over exactly one event, the
\* toggle_complete_error carrying the failure's message
C12_FailureConverted ==
    \A t \in DOMAIN tasks :
        (tasks[t].err # "" /\ tasks[t].pc \in {"finally", "done", "raised"}) =>
            EventsOf(t) = << ErrorEvent(tasks[t].list_id, tasks[t].err) >>

\* C12: a failure met while the list is looked up or its todos are set is
\* turned into exactly one toggle_complete_error event carrying its message,
\* with no done event; and no exception leaves the task on any path: an
\* execution that has ended has handed over an event and then unlocked.
C12_NothingEscapes ==
    \A t \in DOMAIN tasks :
        /\ (tasks[t].err # "" /\ tasks[t].pc \in {"finally", "done", "raised"}) =>
              EventsOf(t) = << ErrorEvent(tasks[t].list_id, tasks[t].err) >>
        /\ tasks[t].pc # "raised"
        /\ TaskEnded(t) => EventsOf(t) # <<>> /\ tasks[t].unlocks = 1

\* C13: while a list id is locked for a toggle nothing but the toggle task
\* changes the list, so that when the task is about to submit its done event
\* (its loop over the todos has ended) every todo the store holds for the list
\* has the requested completed value.
C13_TodosSetWhenDone ==
    \A t \in DOMAIN tasks :
        (tasks[t].pc = "submit" /\ is_locked(tasks[t].list_id)) =>
            \A k \in 1..Len(TodosOf(tasks[t].list_id)) :
                TodosOf(tasks[t].list_id)[k].completed = Some(tasks[t].completed)

\* the detail of an error says "not found"
MentionsNotFound(detail) == \E i \in 1..Len(detail) : detail[i] = " not found"

\* the store holds list l and the list holds a todo with id t
HasTodo(l, t) == IndexOf(l) # 0 /\ TodoIndex(TodosOf(l), t) # 0

\* a request with a body the validation lets through, or with no body
Processed(call) == call.status # 422

C14_NotFoundStep ==
    \A l \in ListIds, t \in TodoIds :
        (/\ response'.op \in {"show", "update", "delete"}
         /\ response'.list_id = l /\ response'.todo_id = t
         /\ Processed(response')
         /\ ~HasTodo(l, t)) =>
        /\ response'.status = 404
        /\ MentionsNotFound(response'.detail)
        /\ storage' = storage
        /\ next_id' = next_id

\* C14: showing, updating or deleting a todo whose list id or todo id the store
\* does not hold is answered with 404 and a detail that says "not found", and
\* leaves every stored list and todo as it was.
C14_NotFound == [][C14_NotFoundStep]_vars

C14_Witness ==
    /\ response.op = "delete" /\ response.status = 404
    /\ IndexOf(response.list_id) # 0
    /\ TodosOf(response.list_id) # <<>>
    /\ ~HasTodo(response.list_id, response.todo_id)
    /\ Len(response.detail) = 5

\* a body with neither field, or with a description that trimming empties
NothingToStore(raw) ==
    \/ raw.description = None /\ raw.completed = None
    \/ raw.description # None /\ strip(raw.description[1]) = <<>>

C15_RejectedStep ==
    \A l \in ListIds, raw \in RawPayloads :
        NothingToStore(raw) =>
            /\ (response'.op = "create" /\ response'.list_id = l /\ create(l, raw)) =>
                  /\ response'.status = 422
                  /\ storage' = storage /\ next_id' = next_id
            /\ \A t \in TodoIds :
                  (/\ response'.op = "update"
                   /\ response'.list_id = l /\ response'.todo_id = t
                   /\ update(l, t, raw)) =>
                  /\ response'.status = 422
                  /\ storage' = storage /\ next_id' = next_id

\* C15: a create or update request whose body has neither description nor
\* completed, or whose description is empty after trimming, is answered 422
\* whatever the store holds, and the store is left as it was.
C15_Rejected == [][C15_RejectedStep]_vars

C15_Witness ==
    /\ response.op = "update" /\ response.status = 422
    /\ response.detail = <<"description cannot be empty">>
    /\ HasTodo(response.list_id, response.todo_id)

\* todos without its k-th element
Without(todos, k) == SubSeq(todos, 1, k - 1) \o SubSeq(todos, k + 1, Len(todos))

C16_DeleteStep ==
    \A l \in ListIds, t \in TodoIds :
        (/\ response'.op = "delete"
         /\ response'.list_id = l /\ response'.todo_id = t
         /\ HasTodo(l, t)
         /\ delete(l, t)) =>
            LET i == IndexOf(l) IN
            /\ response'.status = 204 /\ response'.detail = <<>>
            /\ next_id' = next_id
            /\ Len(storage') = Len(storage)
            /\ \A j \in 1..Len(storage) : j # i => storage'[j] = storage[j]
            /\ storage'[i].id = storage[i].id
            /\ storage'[i].name = storage[i].name
            /\ storage'[i].todos =
                  Without(storage[i].todos, TodoIndex(storage[i].todos, t))
            /\ \A k \in 1..Len(storage'[i].todos) : storage'[i].todos[k].id # t

\* C16: deleting a todo the list holds is answered 204 with no body, removes
\* that todo and no other, keeps the other todos of the list in their order
\* and leaves the list's id and name and every other list as they were.
C16_DeleteExisting == [][C16_DeleteStep]_vars

C16_Witness ==
    /\ response.op = "delete" /\ response.status = 204
    /\ Len(storage) = 2
    /\ Len(TodosOf(response.list_id)) = 1
    /\ TodosOf(response.list_id)[1].id > response.todo_id

\* C17: every todo the store holds has a description that is a string and is
\* not empty after trimming, and a completed field that is a boolean.
C17_TodoFieldsSet ==
    \A i \in 1..Len(storage) : \A k \in 1..Len(storage[i].todos) :
        LET todo == storage[i].todos[k] IN
        /\ todo.description # None
        /\ strip(todo.description[1]) # <<>>
        /\ todo.completed \in {Some(TRUE), Some(FALSE)}

\* the ids of the todos of a list are pairwise distinct
C18_DistinctIds ==
    \A i \in 1..Len(storage) :
        \A j, k \in 1..Len(storage[i].todos) :
            j # k => storage[i].todos[j].id # storage[i].todos[k].id

\* a create that the service carries out appends one todo, whose id is 1 in a
\* list without todos and otherwise one more than the greatest id in the list
C18_CreateStep ==
    \A l \in ListIds, raw \in RawPayloads :
        (/\ response'.op = "create" /\ response'.list_id = l
         /\ Accepts(raw) /\ IndexOf(l) # 0
         /\ create(l, raw)) =>
            LET old == storage[IndexOf(l)].todos
                new == storage'[IndexOf(l)].todos
            IN  /\ response'.status = 201
                /\ Len(new) = Len(old) + 1
                /\ SubSeq(new, 1, Len(old)) = old
                /\ old = <<>> => new[Len(new)].id = 1
                /\ old # <<>> =>
                      /\ \A k \in 1..Len(old) : old[k].id < new[Len(new)].id
                      /\ \E k \in 1..Len(old) : old[k].id + 1 = new[Len(new)].id

\* C18: after any sequence of todo create, update and delete requests the ids
\* of the todos of a list are pairwise distinct, and each created todo gets
\* the greatest id of the list plus one, 1 in a list without todos.
C18_TodoIds == []C18_DistinctIds /\ [][C18_CreateStep]_vars

C18_Witness ==
    /\ response.op = "create" /\ response.status = 201
    /\ Len(TodosOf(response.list_id)) = 2
    /\ TodosOf(response.list_id)[1].id = 2
    /\ TodosOf(response.list_id)[2].id = 3

\* the ids of the stored lists are pairwise distinct and were all handed out
C19_DistinctListIds ==
    /\ \A i, j \in 1..Len(storage) : i # j => storage[i].id # storage[j].id
    /\ \A i \in 1..Len(storage) : storage[i].id \in 1..created

\* the k-th call of create appends a list with id k; no other call adds a list
\* or changes the id of one
C19_ListCreateStep ==
    IF created' # created
    THEN /\ created' = created + 1
         /\ Len(storage') = Len(storage) + 1
         /\ SubSeq(storage', 1, Len(storage)) = storage
         /\ storage'[Len(storage')].id = created'
    ELSE {storage'[i].id : i \in 1..Len(storage')} \subseteq
             {storage[i].id : i \in 1..Len(storage)}

\* C19: after any sequence of list create, update and delete calls the ids of
\* the stored lists are pairwise distinct; the k-th list created gets id k,
\* counting from 1; and an id is not handed out a second time, whether or not
\* its list has been deleted.
C19_ListIds == []C19_DistinctListIds /\ [][C19_ListCreateStep]_vars

C19_Witness ==
    /\ response.op = "list_create"
    /\ created = 2
    /\ Len(storage) = 1
    /\ storage[1].id = 2

\* whether connection c is in the registry, under any list id
Registered(c) == \E l \in DOMAIN active_connections : c \in active_connections[l]

\* the registry against the state of each connection's handler
C20_HandlerState ==
    \A c \in Conns :
        /\ conn[c].st = "open" => c \in Subscribers(conn[c].list_id)
        /\ conn[c].st \in {"new", "refused", "closed"} => ~Registered(c)
        /\ \A l \in DOMAIN active_connections :
              c \in active_connections[l] => l = conn[c].list_id

\* a handshake from an origin that is not allowed leaves the registry alone
C20_RefusedStep ==
    \A c \in Conns, l \in ListIds, origin \in Origins :
        (~OriginAllowed(origin) /\ todo_list_ws(c, l, origin)) =>
            active_connections' = active_connections /\ conn'[c].st = "refused"

\* an idle timeout on a connection whose peer is there sends a ping and
\* changes neither the registry nor the handler's state
C20_PingStep ==
    \A c \in Conns :
        pings'[c] # pings[c] =>
            /\ pings'[c] = pings[c] + 1
            /\ active_connections' = active_connections
            /\ conn' = conn

\* C20: a connection accepted for list id L is subscribed to L, and to L only,
\* for as long as its handler runs and its peer is there, idle timeouts
\* included (each only sends a ping); the handler's exit, on a failed receive
\* or a failed ping, unsubscribes it, so no connection whose handler has ended
\* is in the registry; and a connection from an origin that is not allowed is
\* never subscribed.
C20_Subscription ==
    []C20_HandlerState /\ [][C20_RefusedStep /\ C20_PingStep]_vars

C20_Witness ==
    \E c, d \in Conns :
        /\ conn[c].st = "open" /\ pings[c] = MaxPings
        /\ c \in Subscribers(conn[c].list_id)
        /\ conn[d].st = "closed" /\ pings[d] > 0
        /\ conn[d].list_id = conn[c].list_id

\* the step of execution t is one that hands an event to the loop
HandsOver(t) ==
    \/ tasks[t].pc \in {"submit", "except"}
    \/ tasks[t].pc = "get" /\ tasks'[t].pc = "finally"

\* a step of the worker: the registry, the connections, what clients have been
\* sent and the coroutines of the loop are as before; an event is handed over
\* by appending one callback to the loop's queue
C21_WorkerStep ==
    \A t \in DOMAIN tasks :
        StepOf(t) =>
            /\ active_connections' = active_connections
            /\ net' = net
            /\ conn' = conn
            /\ received' = received
            /\ rtasks' = rtasks
            /\ sleepq' = sleepq
            /\ IF HandsOver(t)
               THEN /\ Len(loopq') = Len(loopq) + 1
                    /\ SubSeq(loopq', 1, Len(loopq)) = loopq
                    /\ loopq'[Len(loopq')].src = t
                    /\ loopq'[Len(loopq')].list_id = tasks[t].list_id
               ELSE loopq' = loopq

\* the coroutine of a handed-over event is created by the loop, from the
\* oldest callback of its queue, in a step that is not a step of the worker
C21_LoopStep ==
    Len(rtasks') > Len(rtasks) =>
        /\ Len(rtasks') = Len(rtasks) + 1
        /\ loopq # <<>>
        /\ loopq' = Tail(loopq)
        /\ rtasks'[Len(rtasks')].src = Head(loopq).src
        /\ rtasks'[Len(rtasks')].message = Head(loopq).message
        /\ tasks' = tasks

\* C21: no step of an execution of the toggle task changes the registry or
\* sends to a connection; the execution hands its event to the loop by
\* appending a callback to the loop's queue, and the retrying broadcast of the
\* event is started by the loop when it runs that callback.
C21_WorkerOffLoop == [][C21_WorkerStep /\ C21_LoopStep]_vars

C21_Witness ==
    \E t \in DOMAIN tasks, r \in DOMAIN rtasks, c \in Conns :
        /\ tasks[t].pc = "done"
        /\ rtasks[r].src = t
        /\ c \in DeliveredTo(r)
        /\ c \in Subscribers(tasks[t].list_id)

\* the executions whose event connection c has received
ReceivedFrom(c) ==
    {rtasks[received[c][i].r].src : i \in 1..Len(received[c])} \cap DOMAIN tasks

\* C22: when a connection has received the terminal event of an execution of
\* the toggle task, the execution has called unlock and its list id is not
\* locked on its account, so a toggle of the list requested in reaction to the
\* event is not refused because of that execution.
C22_UnlockedOnReceipt ==
    \A c \in Conns : \A t \in ReceivedFrom(c) :
        tasks[t].unlocks = 1 /\ NotLockedBy(t)

\* the case of C22 in which the list was found and no failure was met: the
\* event received is toggle_complete_done
C22_UnlockedOnDone ==
    \A c \in Conns : \A t \in ReceivedFrom(c) :
        (tasks[t].found = "yes" /\ tasks[t].err = "") =>
            tasks[t].unlocks = 1 /\ NotLockedBy(t)

\* broadcast r calls send_json on ws in this step, after a suspension
SendsTo(r, ws) ==
    /\ rtasks[r].pc = "send"
    /\ ws \in rtasks[r].pending
    /\ ws \notin rtasks'[r].pending

C23_SendStep ==
    \A r \in DOMAIN rtasks, ws \in Conns :
        SendsTo(r, ws) => ws \in Subscribers(rtasks[r].list_id)

\* C23: a broadcast that resumes after a send calls send_json only on
\* connections that are subscribed to its list at that moment; a connection
\* unsubscribed while the broadcast was suspended is not sent to.
C23_SendsToSubscribed == [][C23_SendStep]_vars

\* the part of C23 about what reaches a client: a message is delivered only
\* to a connection subscribed to the list when it is sent
C23_DeliveryStep ==
    \A r \in DOMAIN rtasks, ws \in Conns :
        (SendsTo(r, ws) /\ received'[ws] # received[ws]) =>
            ws \in Subscribers(rtasks[r].list_id)

C23_DeliversToSubscribed == [][C23_DeliveryStep]_vars

\* the coroutines created for the events of execution t
RetriesOf(t) == {r \in DOMAIN rtasks : rtasks[r].src = t}

\* how many of the messages connection c has received come from execution t
TimesNotified(c, t) ==
    Cardinality({i \in 1..Len(received[c]) : received[c][i].r \in RetriesOf(t)})

\* C24: an execution of the toggle task hands over one event at most, the
\* broadcast_retry of that event calls broadcast at most once (at the first
\* check that finds a subscriber, after which it makes no other check and
\* never sleeps again), so no connection receives the event of an execution
\* twice; and when every send of that broadcast has failed the broadcast_retry
\* has returned all the same, with nothing delivered and no further attempt.
C24_AtMostOneBroadcast ==
    \A t \in DOMAIN tasks :
        /\ Len(EventsOf(t)) <= 1
        /\ \A c \in Conns : TimesNotified(c, t) <= 1
        /\ \A r \in RetriesOf(t) :
              /\ rtasks[r].sawAt # 0 =>
                    /\ rtasks[r].checks = rtasks[r].sawAt
                    /\ rtasks[r].pc \in {"send", "done"}
                    /\ \A i \in 1..Len(sleepq) : sleepq[i] # r
              /\ (rtasks[r].snapshot # {} /\ rtasks[r].failed = rtasks[r].snapshot) =>
                    /\ rtasks[r].pc = "done"
                    /\ DeliveredTo(r) = {}
                    /\ rtasks[r].checks = rtasks[r].sawAt

C24_Witness ==
    \E t \in DOMAIN tasks : \E r \in RetriesOf(t) :
        /\ TaskEnded(t)
        /\ rtasks[r].pc = "done"
        /\ Cardinality(rtasks[r].snapshot) = 1
        /\ rtasks[r].failed = rtasks[r].snapshot
        /\ rtasks[r].checks = 1
        /\ rtasks[r].checks < rtasks[r].retries
        /\ \E d \in Conns : conn[d].st = "open" /\ conn[d].list_id = tasks[t].list_id

\* a call of TodoListService.update on a list the store holds
C25_UpdateStep ==
    \A l \in ListIds :
        (/\ response'.op = "list_update" /\ response'.list_id = l
         /\ IndexOf(l) # 0) =>
            LET i == IndexOf(l) IN
            /\ next_id' = next_id
            /\ Len(storage') = Len(storage)
            /\ \A j \in 1..Len(storage) : j # i => storage'[j] = storage[j]
            /\ storage'[i].id = storage[i].id
            /\ storage'[i].name \in StoreNames
            /\ storage'[i].todos = storage[i].todos

\* C25: TodoListService.update of a list the store holds changes the name of
\* that list and nothing else: the list keeps its id and its todos, with their
\* ids, descriptions and completed values, and every other list is as before.
C25_UpdateKeepsTodos == [][C25_UpdateStep]_vars

\* the part of C25 that leaves the todos out: the id of the list, its place
\* in the store and every other list
C25_UpdateFrameStep ==
    \A l \in ListIds :
        (/\ response'.op = "list_update" /\ response'.list_id = l
         /\ IndexOf(l) # 0) =>
            LET i == IndexOf(l) IN
            /\ next_id' = next_id
            /\ Len(storage') = Len(storage)
            /\ \A j \in 1..Len(storage) : j # i => storage'[j] = storage[j]
            /\ storage'[i].id = storage[i].id
            /\ storage'[i].name \in StoreNames

C25_UpdateFrame == [][C25_UpdateFrameStep]_vars

====
